---- MODULE Spec2Model ----
(***************************************************************************)
(* Model of SrsSecurity (trunk/src/app/srs_app_security.cpp): the per-vhost *)
(* allow/deny admission check of an RTMP connection.                       *)
(*                                                                         *)
(* Strings that the code parses (addresses, rule targets) are sequences of *)
(* one-character strings.  An srs_error_t is the chain of its frames,      *)
(* outermost first; srs_success (the null pointer) is the empty chain.     *)
(***************************************************************************)
EXTENDS Integers, Sequences, FiniteSets, TLC

\* ------------------------------------------------------------------------
\* Bounds
\* ------------------------------------------------------------------------
MaxRules == 2

\* ------------------------------------------------------------------------
\* Text helpers
\* ------------------------------------------------------------------------
Digits == <<"0", "1", "2", "3", "4", "5", "6", "7", "8", "9">>

DigitVal ==
    ("0" :> 0) @@ ("1" :> 1) @@ ("2" :> 2) @@ ("3" :> 3) @@ ("4" :> 4) @@
    ("5" :> 5) @@ ("6" :> 6) @@ ("7" :> 7) @@ ("8" :> 8) @@ ("9" :> 9)

IsDigit(c) == c \in DOMAIN DigitVal

\* the indexes of c in s
IndexesOf(s, c) == {i \in 1..Len(s) : s[i] = c}

\* the least element of a set of numbers, 0 for the empty set
First(I) == IF I = {} THEN 0 ELSE CHOOSE i \in I : \A j \in I : i <= j

\* the first index of c in s, 0 when there is none
IndexOf(s, c) == First(IndexesOf(s, c))

\* the part k of s, cut at the indexes I, all below Len(s) + 1
Part(s, I, k) ==
    SubSeq(s,
           First({i + 1 : i \in {j \in I \cup {0} : Cardinality({h \in I : h <= j}) = k - 1}}),
           First({i - 1 : i \in {j \in I \cup {Len(s) + 1} : Cardinality({h \in I : h < j}) = k - 1}}))

\* the parts of s between the occurrences of c
Split(s, c) == [k \in 1..(Cardinality(IndexesOf(s, c)) + 1) |-> Part(s, IndexesOf(s, c), k)]

\* decimal value of a string of one to three digits, -1 for anything else
StrToNum(s) ==
    IF Len(s) = 0 \/ Len(s) > 3 \/ \E i \in 1..Len(s) : ~IsDigit(s[i]) THEN -1
    ELSE IF Len(s) = 1 THEN DigitVal[s[1]]
    ELSE IF Len(s) = 2 THEN 10 * DigitVal[s[1]] + DigitVal[s[2]]
    ELSE 100 * DigitVal[s[1]] + 10 * DigitVal[s[2]] + DigitVal[s[3]]

\* the decimal text of a number below 1000
NumToStr(n) ==
    IF n < 10 THEN <<Digits[n + 1]>>
    ELSE IF n < 100 THEN <<Digits[(n \div 10) + 1], Digits[(n % 10) + 1]>>
    ELSE <<Digits[(n \div 100) + 1], Digits[((n \div 10) % 10) + 1], Digits[(n % 10) + 1]>>

Bit(a, i) == (a \div (2 ^ i)) % 2

\* bitwise and of two octets
BitAnd(a, b) ==
    Bit(a, 0) * Bit(b, 0) + 2 * Bit(a, 1) * Bit(b, 1) + 4 * Bit(a, 2) * Bit(b, 2)
        + 8 * Bit(a, 3) * Bit(b, 3) + 16 * Bit(a, 4) * Bit(b, 4) + 32 * Bit(a, 5) * Bit(b, 5)
        + 64 * Bit(a, 6) * Bit(b, 6) + 128 * Bit(a, 7) * Bit(b, 7)

\* bitwise and of two tuples of four octets
BitAnd4(a, b) == [k \in 1..4 |-> BitAnd(a[k], b[k])]

\* ------------------------------------------------------------------------
\* IPv4 / CIDR leaf helpers (srs_protocol_utility)
\* ------------------------------------------------------------------------
\* the octets of the parts of a dotted string, <<>> unless four parts in 0..255
OctetsOf(nums) ==
    IF Len(nums) = 4 /\ \A k \in 1..4 : nums[k] \in 0..255 THEN nums ELSE <<>>

\* the four octets of a dotted-quad literal, <<>> when s is not one
srs_ipv4_to_num(s) ==
    OctetsOf([k \in 1..Len(Split(s, ".")) |-> StrToNum(Split(s, ".")[k])])

srs_is_ipv4(s) == srs_ipv4_to_num(s) # <<>>

\* the part of target before position p, all of it when p is 0
Before(target, p) == IF p = 0 THEN target ELSE SubSeq(target, 1, p - 1)

\* the network part of a target: what precedes the "/"
srs_get_cidr_ipv4(target) == Before(target, IndexOf(target, "/"))

\* the octet k of the netmask of a prefix length
MaskOctet(b) == 256 - 2 ^ (8 - (IF b < 0 THEN 0 ELSE IF b > 8 THEN 8 ELSE b))

\* the dotted-quad netmask of a prefix length
CidrMask(bits) ==
    NumToStr(MaskOctet(bits)) \o <<".">> \o NumToStr(MaskOctet(bits - 8)) \o <<".">>
        \o NumToStr(MaskOctet(bits - 16)) \o <<".">> \o NumToStr(MaskOctet(bits - 24))

\* the mask that the text after the "/" stands for, "" when it stands for none
MaskOf(suffix, bits) ==
    IF bits \in 0..32 THEN CidrMask(bits)
    ELSE IF srs_is_ipv4(suffix) THEN suffix
    ELSE <<>>

\* the text of target after position p
After(target, p) == SubSeq(target, p + 1, Len(target))

\* the mask of a target in network/bits or network/mask form, "" otherwise
srs_get_cidr_mask(target) ==
    IF IndexOf(target, "/") = 0 THEN <<>>
    ELSE MaskOf(After(target, IndexOf(target, "/")),
                StrToNum(After(target, IndexOf(target, "/"))))

\* ip, network and mask as octets: ip is within the network
WithinMask(a, n, m) ==
    /\ a # <<>>
    /\ n # <<>>
    /\ m # <<>>
    /\ BitAnd4(a, m) = BitAnd4(n, m)

srs_ipv4_within_mask(address, network, mask) ==
    WithinMask(srs_ipv4_to_num(address), srs_ipv4_to_num(network), srs_ipv4_to_num(mask))

\* ------------------------------------------------------------------------
\* srs_error_t
\* ------------------------------------------------------------------------
srs_success == <<>>

srs_error_new(code, fmt, args) == <<[code |-> code, fmt |-> fmt, args |-> args]>>

\* a new frame on top of v; it takes v's code, or ERROR_SUCCESS when v is null
srs_error_wrap(v, fmt, args) ==
    <<[code |-> IF v = srs_success THEN "ERROR_SUCCESS" ELSE v[1].code,
       fmt |-> fmt, args |-> args]>> \o v

\* ------------------------------------------------------------------------
\* Inputs
\* ------------------------------------------------------------------------
S_all == <<"a", "l", "l">>
S_10_0_0_5 == <<"1", "0", ".", "0", ".", "0", ".", "5">>
S_192_168_1_1 == <<"1", "9", "2", ".", "1", "6", "8", ".", "1", ".", "1">>
S_v6 == <<":", ":", "1">>
S_10_8 == <<"1", "0", ".", "0", ".", "0", ".", "0", "/", "8">>
S_192_168_m16 == <<"1", "9", "2", ".", "1", "6", "8", ".", "0", ".", "0", "/",
                   "2", "5", "5", ".", "2", "5", "5", ".", "0", ".", "0">>
S_0_0 == <<"0", ".", "0", ".", "0", ".", "0", "/", "0">>

Addresses == {S_10_0_0_5, S_192_168_1_1, S_v6}

Targets == {S_all, S_10_0_0_5, S_v6, S_10_8, S_192_168_m16, S_0_0}

ConnTypes == {"SrsRtmpConnUnknown", "SrsRtmpConnPlay", "SrsRtmpConnFMLEPublish",
              "SrsRtmpConnFlashPublish", "SrsRtmpConnHaivisionPublish"}

\* a security directive: name arg0 arg1, e.g. "allow play all"
Rules == [name : {"allow", "deny"}, arg0 : {"play", "publish"}, arg1 : Targets]

\* the sequences over S of length at most n
SeqsUpTo(S, n) == UNION {[1..k -> S] : k \in 0..n}

\* what get_security_rules returns: a null pointer or a directive with children
NoRules == [present |-> FALSE, directives |-> <<>>]

RuleSets == {NoRules} \cup {[present |-> TRUE, directives |-> d] : d \in SeqsUpTo(Rules, MaxRules)}

\* ------------------------------------------------------------------------
\* SrsSecurity
\* ------------------------------------------------------------------------
\* the locals that both scans compute for a rule before their switch, from the
\* rule's target and the address; computed once for each pair of the inputs
LocalsOf(cidr_ipv4, cidr_mask, address) ==
    [is_ipv4 |-> srs_is_ipv4(cidr_ipv4),
     is_cidr_mask |-> cidr_mask # <<>>,
     within_mask |-> srs_ipv4_within_mask(address, cidr_ipv4, cidr_mask)]

RuleLocals ==
    [target \in Targets, address \in Addresses |->
        LocalsOf(srs_get_cidr_ipv4(target), srs_get_cidr_mask(target), address)]

\* allow_match as it would be without the comparison of the rule's kind
allow_match_nokind(rule, type, ip) ==
    LET is_ipv4 == RuleLocals[rule.arg1, ip].is_ipv4
        is_cidr_mask == RuleLocals[rule.arg1, ip].is_cidr_mask
        within_mask == RuleLocals[rule.arg1, ip].within_mask
    IN  /\ type # "SrsRtmpConnUnknown"
        /\ \/ rule.arg1 = S_all \/ rule.arg1 = ip
           \/ is_ipv4 /\ is_cidr_mask /\ within_mask

\* the body of allow_check's loop for one allow rule: TRUE when it returns
allow_match(rule, type, ip) ==
    LET is_ipv4 == RuleLocals[rule.arg1, ip].is_ipv4
        is_cidr_mask == RuleLocals[rule.arg1, ip].is_cidr_mask
        within_mask == RuleLocals[rule.arg1, ip].within_mask
    IN  CASE type = "SrsRtmpConnPlay" ->
                /\ rule.arg0 = "play"
                /\ \/ rule.arg1 = S_all \/ rule.arg1 = ip
                   \/ is_ipv4 /\ is_cidr_mask /\ within_mask
          [] type \in {"SrsRtmpConnFMLEPublish", "SrsRtmpConnFlashPublish",
                       "SrsRtmpConnHaivisionPublish"} ->
                /\ rule.arg0 = "publish"
                /\ \/ rule.arg1 = S_all \/ rule.arg1 = ip
                   \/ is_ipv4 /\ is_cidr_mask /\ within_mask
          [] OTHER -> FALSE

RECURSIVE allow_loop(_, _, _, _, _, _)
\* the for loop of allow_check from index i on, with the two counters
allow_loop(directives, type, ip, i, allow_rules, deny_rules) ==
    IF i > Len(directives)
    THEN [matched |-> FALSE, allow_rules |-> allow_rules, deny_rules |-> deny_rules]
    ELSE IF directives[i].name # "allow"
    THEN allow_loop(directives, type, ip, i + 1, allow_rules,
                    IF directives[i].name = "deny" THEN deny_rules + 1 ELSE deny_rules)
    ELSE IF allow_match(directives[i], type, ip)
    THEN [matched |-> TRUE, allow_rules |-> allow_rules + 1, deny_rules |-> deny_rules]
    ELSE allow_loop(directives, type, ip, i + 1, allow_rules + 1, deny_rules)

\* lines 144-147 as they would be if an empty rule list were not a hard failure
allow_result_emptypass(r) ==
    IF r.matched THEN srs_success
    ELSE IF r.allow_rules > 0
    THEN srs_error_new("ERROR_SYSTEM_SECURITY_ALLOW", "not allowed by any of %d/%d rules",
                       <<r.allow_rules, r.deny_rules>>)
    ELSE srs_success

\* lines 144-147 as they would be without the soft pass of a deny-only list
allow_result_nosoftpass(r) ==
    IF r.matched THEN srs_success
    ELSE srs_error_new("ERROR_SYSTEM_SECURITY_ALLOW", "not allowed by any of %d/%d rules",
                       <<r.allow_rules, r.deny_rules>>)

\* what allow_check returns once its loop ended with r: success from inside the
\* loop on a match, else the mode test on the two counters
allow_result(r) ==
    IF r.matched THEN srs_success
    ELSE IF r.allow_rules > 0 \/ (r.deny_rules + r.allow_rules) = 0
    THEN srs_error_new("ERROR_SYSTEM_SECURITY_ALLOW", "not allowed by any of %d/%d rules",
                       <<r.allow_rules, r.deny_rules>>)
    ELSE srs_success

RECURSIVE allow_loop_firstrule(_, _, _, _, _, _)
allow_loop_firstrule(directives, type, ip, i, allow_rules, deny_rules) ==
    IF i > Len(directives)
    THEN [matched |-> FALSE, allow_rules |-> allow_rules, deny_rules |-> deny_rules]
    ELSE IF directives[i].name # "allow"
    THEN allow_loop_firstrule(directives, type, ip, i + 1, allow_rules,
                              IF directives[i].name = "deny" THEN deny_rules + 1 ELSE deny_rules)
    ELSE [matched |-> allow_match(directives[i], type, ip),
          allow_rules |-> allow_rules + 1, deny_rules |-> deny_rules]

\* allow_check as it would be if the first allow rule decided (the loop left at it)
allow_check_firstrule(rules, type, ip) ==
    allow_result(allow_loop_firstrule(rules.directives, type, ip, 1, 0, 0))

allow_check(rules, type, ip) == allow_result(allow_loop(rules.directives, type, ip, 1, 0, 0))

\* deny_match as it would be without the comparison of the target with the address
deny_match_noequal(rule, type, ip) ==
    LET is_ipv4 == RuleLocals[rule.arg1, ip].is_ipv4
        is_cidr_mask == RuleLocals[rule.arg1, ip].is_cidr_mask
        within_mask == RuleLocals[rule.arg1, ip].within_mask
    IN  CASE type = "SrsRtmpConnPlay" ->
                /\ rule.arg0 = "play"
                /\ \/ rule.arg1 = S_all
                   \/ is_ipv4 /\ is_cidr_mask /\ within_mask
          [] type \in {"SrsRtmpConnFMLEPublish", "SrsRtmpConnFlashPublish",
                       "SrsRtmpConnHaivisionPublish"} ->
                /\ rule.arg0 = "publish"
                /\ \/ rule.arg1 = S_all
                   \/ is_ipv4 /\ is_cidr_mask /\ within_mask
          [] OTHER -> FALSE

\* the body of deny_check's loop for one deny rule: TRUE when it returns
deny_match(rule, type, ip) ==
    LET is_ipv4 == RuleLocals[rule.arg1, ip].is_ipv4
        is_cidr_mask == RuleLocals[rule.arg1, ip].is_cidr_mask
        within_mask == RuleLocals[rule.arg1, ip].within_mask
    IN  CASE type = "SrsRtmpConnPlay" ->
                /\ rule.arg0 = "play"
                /\ \/ rule.arg1 = S_all \/ rule.arg1 = ip
                   \/ is_ipv4 /\ is_cidr_mask /\ within_mask
          [] type \in {"SrsRtmpConnFMLEPublish", "SrsRtmpConnFlashPublish",
                       "SrsRtmpConnHaivisionPublish"} ->
                /\ rule.arg0 = "publish"
                /\ \/ rule.arg1 = S_all \/ rule.arg1 = ip
                   \/ is_ipv4 /\ is_cidr_mask /\ within_mask
          [] OTHER -> FALSE

RECURSIVE deny_loop(_, _, _, _)
deny_loop(directives, type, ip, i) ==
    IF i > Len(directives) THEN srs_success
    ELSE IF directives[i].name # "deny" THEN deny_loop(directives, type, ip, i + 1)
    ELSE IF deny_match(directives[i], type, ip)
    THEN srs_error_new("ERROR_SYSTEM_SECURITY_DENY", "deny by rule<%s>", <<directives[i].arg1>>)
    ELSE deny_loop(directives, type, ip, i + 1)

deny_check(rules, type, ip) == deny_loop(rules.directives, type, ip, 1)

\* the error after the first if of do_check (lines 65-67)
after_deny(err, deny_err, ip) ==
    IF deny_err # srs_success THEN srs_error_wrap(err, "for %s", <<ip>>) ELSE err

\* the error after the second if of do_check (lines 70-72)
after_allow(err, allow_err, ip) ==
    IF allow_err # srs_success THEN srs_error_wrap(err, "for %s", <<ip>>) ELSE err

\* the error after the third if of do_check (lines 75-78)
after_override(err, deny_err, allow_err) ==
    IF deny_err # srs_success /\ allow_err = srs_success THEN srs_success ELSE err

\* lines 64-80 as they would be if a failed scan returned its wrapped error at once
do_check_scans_denyfirst(deny_err, allow_err, ip) ==
    IF deny_err # srs_success
    THEN [err |-> srs_error_wrap(deny_err, "for %s", <<ip>>), deny_err |-> deny_err,
          allow_err |-> srs_success, calls |-> <<"deny_check">>]
    ELSE [err |-> IF allow_err # srs_success
                  THEN srs_error_wrap(allow_err, "for %s", <<ip>>)
                  ELSE srs_success,
          deny_err |-> deny_err, allow_err |-> allow_err,
          calls |-> <<"deny_check", "allow_check">>]

\* lines 64-80 as they would be without the final override of lines 75-78
do_check_scans_nooverride(deny_err, allow_err, ip) ==
    [err |-> after_allow(after_deny(srs_success, deny_err, ip), allow_err, ip),
     deny_err |-> deny_err, allow_err |-> allow_err,
     calls |-> <<"deny_check", "allow_check">>]

\* lines 64-80 of do_check, given what the two scans returned
do_check_scans(deny_err, allow_err, ip) ==
    [err |-> after_override(after_allow(after_deny(srs_success, deny_err, ip), allow_err, ip),
                            deny_err, allow_err),
     deny_err |-> deny_err, allow_err |-> allow_err,
     calls |-> <<"deny_check", "allow_check">>]

\* do_check as it would be if a null rules pointer were scanned like an empty list
do_check_nullasempty(rules, type, ip) ==
    do_check_scans(deny_check(rules, type, ip), allow_check(rules, type, ip), ip)

\* the returned error, the two locals at return, and the scans that were called
do_check(rules, type, ip) ==
    IF ~rules.present
    THEN [err |-> srs_error_new("ERROR_SYSTEM_SECURITY", "default deny for %s", <<ip>>),
          deny_err |-> srs_success, allow_err |-> srs_success, calls |-> <<>>]
    ELSE do_check_scans(deny_check(rules, type, ip), allow_check(rules, type, ip), ip)

\* ------------------------------------------------------------------------
\* State
\* ------------------------------------------------------------------------
VARIABLES
    enabled,    \* _srs_config->get_security_enabled(req->vhost)
    rules,      \* _srs_config->get_security_rules(req->vhost)
    type,       \* the connection type of the request
    ip,         \* the address of the client
    pc,         \* "call" before SrsSecurity::check, "done" after it returned
    err,        \* the error check returned
    deny_err,   \* do_check's local at return
    allow_err,  \* do_check's local at return
    calls       \* the scans do_check called, in order

vars == <<enabled, rules, type, ip, pc, err, deny_err, allow_err, calls>>

Init ==
    /\ enabled \in BOOLEAN
    /\ rules \in RuleSets
    /\ type \in ConnTypes
    /\ ip \in Addresses
    /\ pc = "call"
    /\ err = srs_success
    /\ deny_err = srs_success
    /\ allow_err = srs_success
    /\ calls = <<>>

\* SrsSecurity::check with the security of the vhost disabled
CheckDisabled ==
    /\ pc = "call"
    /\ ~enabled
    /\ pc' = "done"
    /\ err' = srs_success
    /\ UNCHANGED <<enabled, rules, type, ip, deny_err, allow_err, calls>>

\* SrsSecurity::check with the security of the vhost enabled
CheckEnabled ==
    /\ pc = "call"
    /\ enabled
    /\ \E r \in {do_check(rules, type, ip)} :
           /\ err' = r.err
           /\ deny_err' = r.deny_err
           /\ allow_err' = r.allow_err
           /\ calls' = r.calls
    /\ pc' = "done"
    /\ UNCHANGED <<enabled, rules, type, ip>>

Next == CheckDisabled \/ CheckEnabled

Spec == Init /\ [][Next]_vars

\* ------------------------------------------------------------------------
\* Vocabulary of the properties
\* ------------------------------------------------------------------------
\* the category of rules a request is checked against
Category(t) ==
    CASE t = "SrsRtmpConnPlay" -> "play"
      [] t \in {"SrsRtmpConnFMLEPublish", "SrsRtmpConnFlashPublish",
                "SrsRtmpConnHaivisionPublish"} -> "publish"
      [] OTHER -> "none"

\* the target match predicate
TargetMatch(target, address) ==
    \/ target = S_all
    \/ target = address
    \/ /\ srs_is_ipv4(srs_get_cidr_ipv4(target))
       /\ IndexOf(target, "/") # 0
       /\ srs_get_cidr_mask(target) # <<>>
       /\ srs_is_ipv4(address)
       /\ srs_ipv4_within_mask(address, srs_get_cidr_ipv4(target), srs_get_cidr_mask(target))

\* the pairs of a target and an address of the inputs that match
TargetMatches ==
    UNION {IF TargetMatch(target, address) THEN {<<target, address>>} ELSE {} :
               target \in Targets, address \in Addresses}

\* the indexes of the rules of an action that apply to the request
Matching(action) ==
    {i \in 1..Len(rules.directives) :
        /\ rules.directives[i].name = action
        /\ rules.directives[i].arg0 = Category(type)
        /\ <<rules.directives[i].arg1, ip>> \in TargetMatches}

DenyRuleMatches == Matching("deny") # {}

AllowRuleMatches == Matching("allow") # {}

AllowCount == Cardinality({i \in 1..Len(rules.directives) : rules.directives[i].name = "allow"})

DenyCount == Cardinality({i \in 1..Len(rules.directives) : rules.directives[i].name = "deny"})

\* check has returned from do_check, which was given a rule list
Decided == pc = "done" /\ enabled /\ rules.present

Admitted == err = srs_success

\* the error chain e has a frame with this code, format and arguments
Carries(e, code, fmt, args) ==
    \E k \in 1..Len(e) : e[k].code = code /\ e[k].fmt = fmt /\ e[k].args = args

\* the rule list with its rules in the order p
Permuted(p) == [present |-> TRUE, directives |-> [k \in 1..Len(rules.directives) |-> rules.directives[p[k]]]]

\* ------------------------------------------------------------------------
\* Properties
\* ------------------------------------------------------------------------
\* C1: when a deny rule of the request's kind matches the address and no allow
\* rule of that kind matches it, do_check returns DENY (deny-only lists included).
C1_DenyMatchDenies ==
    (Decided /\ DenyRuleMatches /\ ~AllowRuleMatches) => ~Admitted

\* C2: when a deny rule and an allow rule of the request's kind both match the
\* address, do_check returns ALLOW, whatever the order of the two rules.
C2_AllowOverridesDeny ==
    (Decided /\ DenyRuleMatches /\ AllowRuleMatches) => Admitted

C2_Witness ==
    /\ Decided
    /\ rules.directives = <<[name |-> "deny", arg0 |-> "publish", arg1 |-> S_10_0_0_5],
                            [name |-> "allow", arg0 |-> "publish", arg1 |-> S_10_0_0_5]>>
    /\ type = "SrsRtmpConnFMLEPublish"
    /\ ip = S_10_0_0_5
    /\ deny_err # srs_success
    /\ Admitted

\* C3: with an allow rule of any kind configured, or with an empty list, a
\* request that no allow rule of its kind matches is denied, whether or not a
\* deny rule matched.
C3_WhitelistDenies ==
    (Decided /\ (AllowCount > 0 \/ AllowCount + DenyCount = 0) /\ ~AllowRuleMatches)
        => ~Admitted

C3_Witness ==
    /\ Decided
    /\ rules.directives = <<[name |-> "deny", arg0 |-> "play", arg1 |-> S_10_8],
                            [name |-> "allow", arg0 |-> "play", arg1 |-> S_192_168_m16]>>
    /\ type = "SrsRtmpConnPlay"
    /\ ip = S_10_0_0_5
    /\ deny_err # srs_success
    /\ allow_err # srs_success
    /\ ~Admitted

\* C4: with only deny rules configured, a request that no deny rule of its kind
\* matches is admitted.
C4_BlacklistSoftPass ==
    (Decided /\ AllowCount = 0 /\ DenyCount > 0 /\ ~DenyRuleMatches) => Admitted

C4_Witness ==
    /\ Decided
    /\ rules.directives = <<[name |-> "deny", arg0 |-> "play", arg1 |-> S_10_8]>>
    /\ type = "SrsRtmpConnPlay"
    /\ ip = S_192_168_1_1
    /\ deny_err = srs_success
    /\ Admitted

\* C5: with security enabled and no rule list, do_check returns the error
\* "default deny for <address>" and runs neither scan.
C5_DefaultDeny ==
    (pc = "done" /\ enabled /\ ~rules.present)
        => /\ err = <<[code |-> "ERROR_SYSTEM_SECURITY", fmt |-> "default deny for %s",
                       args |-> <<ip>>]>>
           /\ calls = <<>>

C5_Witness ==
    /\ pc = "done"
    /\ enabled
    /\ ~rules.present
    /\ ~Admitted
    /\ type = "SrsRtmpConnPlay"

\* C6: every order of the rules of a list gives the same admit/deny outcome.
C6_OrderIndependent ==
    Decided =>
        \A p \in Permutations(1..Len(rules.directives)) :
            (do_check(Permuted(p), type, ip).err = srs_success) <=> Admitted

C6_Witness ==
    /\ Decided
    /\ Len(rules.directives) = 2
    /\ rules.directives[1] # rules.directives[2]
    /\ rules.directives[1].name = "allow"
    /\ rules.directives[2].name = "allow"
    /\ Matching("allow") = {2}
    /\ Admitted

\* C7: a DENY of do_check for a rule list carries the diagnostic of the scan
\* that caused it: "deny by rule<target>" of the first matching deny rule when
\* the deny scan matched, else "not allowed by any of allowCount/denyCount rules".
C7_ReasonPropagated ==
    (Decided /\ ~Admitted) =>
        IF DenyRuleMatches
        THEN Carries(err, "ERROR_SYSTEM_SECURITY_DENY", "deny by rule<%s>",
                     <<rules.directives[CHOOSE i \in Matching("deny") :
                            \A j \in Matching("deny") : i <= j].arg1>>)
        ELSE Carries(err, "ERROR_SYSTEM_SECURITY_ALLOW", "not allowed by any of %d/%d rules",
                     <<AllowCount, DenyCount>>)

\* C8: in both scans only a rule whose kind is the request's category can match,
\* for every target; a rule of another kind is still counted in the counters.
C8_KindMatching ==
    Decided =>
        /\ deny_err # srs_success =>
              \E i \in 1..Len(rules.directives) :
                  /\ rules.directives[i].name = "deny"
                  /\ rules.directives[i].arg0 = Category(type)
                  /\ deny_err[1].args = <<rules.directives[i].arg1>>
        /\ (allow_err = srs_success /\ AllowCount > 0) =>
              \E i \in 1..Len(rules.directives) :
                  /\ rules.directives[i].name = "allow"
                  /\ rules.directives[i].arg0 = Category(type)
        /\ allow_err # srs_success => allow_err[1].args = <<AllowCount, DenyCount>>

C8_Witness ==
    /\ Decided
    /\ rules.directives = <<[name |-> "allow", arg0 |-> "play", arg1 |-> S_all]>>
    /\ type = "SrsRtmpConnFlashPublish"
    /\ allow_err # srs_success
    /\ allow_err[1].args = <<1, 0>>

====
